---- MODULE Spec2Model ----
(***************************************************************************)
(* A model of rcapi.py: title normalisation and matching, the provider     *)
(* adapters (EuropePMC, OpenAIRE, RePEc, Dimensions, SSRN) and the         *)
(* consolidated dispatch functions.                                        *)
(*                                                                         *)
(* Python strings are sequences of one-character strings.  An optional     *)
(* value (a value or Python's None) is a record [none, v].  A dict is a    *)
(* function from its keys to its values.  A call ends in an outcome        *)
(* [kind, val, err]: it returned val, or it raised the exception err.      *)
(* A parsed XML/HTML element is a function from the names of the child     *)
(* elements it has to their text.                                          *)
(***************************************************************************)
EXTENDS Integers, Sequences, FiniteSets, TLC

VARIABLES op, args, ret, pc, browser, request

vars == <<op, args, ret, pc, browser, request>>

(* ------------------------------ bounds -------------------------------- *)

\* longest string given to clean_title
MaxLen == 3
\* longest title given to title_match
MaxTitleLen == 2
\* longest result list in a provider's response
MaxResults == 2

(* ------------------------- values and outcomes ------------------------ *)

None == [none |-> TRUE, v |-> <<>>]
Some(x) == [none |-> FALSE, v |-> x]

Returned(x) == [kind |-> "returned", val |-> x, err |-> "-"]
Raised(e) == [kind |-> "raised", val |-> None, err |-> e]
Pending == [kind |-> "pending", val |-> None, err |-> "-"]

EmptyDict == <<>>
DictSet(d, k, x) == [key \in (DOMAIN d) \cup {k} |-> IF key = k THEN x ELSE d[key]]

SeqsUpTo(S, n) == UNION {[1..k -> S] : k \in 0..n}

Range(f) == {f[x] : x \in DOMAIN f}

(* --------------------------- utility functions ------------------------ *)

\* the characters of the model's strings
Alphabet == {"a", "A", " ", "\t", "."}

\* the characters str.strip is given in clean_title
StripChars == {" ", "\"", "'", "?", "!", ".", ","}

\* characters the regular expression \s matches (it matches the vertical tab
\* and the other Unicode whitespace too)
Whitespace == {" ", "\t", "\n", "\r", "\f"}

LowerChar(c) ==
    CASE c = "A" -> "a"
      [] c = "C" -> "c"
      [] c = "D" -> "d"
      [] c = "E" -> "e"
      [] c = "I" -> "i"
      [] c = "M" -> "m"
      [] c = "N" -> "n"
      [] c = "O" -> "o"
      [] c = "P" -> "p"
      [] c = "R" -> "r"
      [] c = "S" -> "s"
      [] OTHER -> c

Lower(s) == [i \in 1..Len(s) |-> LowerChar(s[i])]

RECURSIVE LStrip(_, _)
LStrip(s, chars) ==
    IF s # <<>> /\ Head(s) \in chars THEN LStrip(Tail(s), chars) ELSE s

RECURSIVE RStrip(_, _)
RStrip(s, chars) ==
    IF s # <<>> /\ s[Len(s)] \in chars
    THEN RStrip(SubSeq(s, 1, Len(s) - 1), chars)
    ELSE s

Strip(s, chars) == RStrip(LStrip(s, chars), chars)

\* re.sub("\s+", " ", s)
RECURSIVE SubWhitespace(_)
SubWhitespace(s) ==
    IF s = <<>> THEN <<>>
    ELSE IF Head(s) \in Whitespace
         THEN <<" ">> \o SubWhitespace(LStrip(s, Whitespace))
         ELSE <<Head(s)>> \o SubWhitespace(Tail(s))

clean_title(title) == Lower(SubWhitespace(Strip(title, StripChars)))

\* title0, title1 are optional strings; None has no strip attribute
title_match(title0, title1) ==
    IF title0.none \/ title1.none
    THEN Raised("AttributeError")
    ELSE Returned(clean_title(title0.v) = clean_title(title1.v))

get_xml_node_value(root, name) ==
    IF name \in DOMAIN root THEN Some(root[name]) ELSE None

\* str.split(sep) for a separator of two characters
RECURSIVE SplitFrom(_, _, _)
SplitFrom(s, sep, cur) ==
    IF s = <<>> THEN <<cur>>
    ELSE IF Len(s) >= Len(sep) /\ SubSeq(s, 1, Len(sep)) = sep
         THEN <<cur>> \o SplitFrom(SubSeq(s, Len(sep) + 1, Len(s)), sep, <<>>)
         ELSE SplitFrom(Tail(s), sep, Append(cur, Head(s)))

Split(s, sep) == SplitFrom(s, sep, <<>>)

(* ------------------------------ inputs -------------------------------- *)

Strings == SeqsUpTo(Alphabet, MaxLen)
MatchTitles == {None} \cup {Some(s) : s \in SeqsUpTo(Alphabet, MaxTitleLen)}

\* the titles queried and the titles of the providers' candidates
Titles == {<<"a">>, <<"A", ".">>, <<"b">>, <<"a", " ", "b">>}
OptTitles == {None} \cup {Some(t) : t \in Titles}

(* ------------------------------ EuropePMC ----------------------------- *)

\* the text of <authorstring> in a result
AuthorStrings == {<<"x">>, <<"x", ",", " ", "y">>}
OptAuthorStrings == {None} \cup {Some(a) : a \in AuthorStrings}

\* the i-th <result> of a EuropePMC response
EpmcResult(i, shape) ==
    [tag \in {"doi", "pmcid", "journaltitle", "haspdf"}
             \cup (IF shape.title.none THEN {} ELSE {"title"})
             \cup (IF shape.authorstring.none THEN {} ELSE {"authorstring"}) |->
        CASE tag = "title" -> shape.title.v
          [] tag = "authorstring" -> shape.authorstring.v
          [] tag = "haspdf" -> shape.haspdf
          [] OTHER -> <<tag, i>>]

EpmcShapes == [title : OptTitles, authorstring : OptAuthorStrings, haspdf : {"Y", "N"}]

EpmcPdfUrl(pmcid) == <<"http://europepmc.org/articles/", pmcid, "?pdf=render">>

\* the body of the loop for one result whose title matches
EpmcTake(meta, result) ==
    LET m1 == DictSet(meta, "doi", get_xml_node_value(result, "doi"))
        m2 == DictSet(m1, "pmcid", get_xml_node_value(result, "pmcid"))
        m3 == DictSet(m2, "journal", get_xml_node_value(result, "journaltitle"))
        m4 == DictSet(m3, "authors",
                      Split(get_xml_node_value(result, "authorstring").v, <<",", " ">>))
    IN  IF get_xml_node_value(result, "haspdf") = Some("Y")
        THEN DictSet(m4, "pdf", EpmcPdfUrl(m4["pmcid"]))
        ELSE m4

\* the loop over result_list from its i-th entry on
RECURSIVE EpmcLoop(_, _, _, _)
EpmcLoop(title, result_list, i, meta) ==
    IF i > Len(result_list) THEN Returned(meta)
    ELSE LET result == result_list[i]
             m == title_match(Some(title), get_xml_node_value(result, "title"))
         IN  IF m.kind = "raised" THEN m
             ELSE IF ~m.val THEN EpmcLoop(title, result_list, i + 1, meta)
             ELSE IF get_xml_node_value(result, "authorstring").none
                  THEN Raised("AttributeError")
             ELSE EpmcLoop(title, result_list, i + 1, EpmcTake(meta, result))

europepmc_title_search(title, result_list) ==
    EpmcLoop(title, result_list, 1, EmptyDict)

(* ------------------------------ OpenAIRE ------------------------------ *)

\* the classid attributes of the <bestaccessright> elements of a result
AccessRights ==
    {<<>>, <<"OPEN">>, <<"CLOSED">>, <<"CLOSED", "OPEN">>, <<"RESTRICTED", "CLOSED">>}

\* the i-th <oaf:result> of an OpenAIRE response
OaResult(i, shape) ==
    [tag \in {"url", "creator", "bestaccessright"}
             \cup (IF shape.title.none THEN {} ELSE {"title"}) |->
        CASE tag = "title" -> shape.title.v
          [] tag = "bestaccessright" -> shape.rights
          [] tag = "creator" -> <<<<"creator", i, 1>>, <<"creator", i, 2>>>>
          [] OTHER -> <<tag, i>>]

OaShapes == [title : OptTitles, rights : AccessRights]

\* result.find_all("bestaccessright", {"classid": "OPEN"})
FindAllOpen(result) ==
    {k \in 1..Len(result["bestaccessright"]) : result["bestaccessright"][k] = "OPEN"}

OaTake(meta, result) ==
    LET m1 == DictSet(meta, "url", get_xml_node_value(result, "url"))
        m2 == DictSet(m1, "authors", result["creator"])
    IN  DictSet(m2, "open", Cardinality(FindAllOpen(result)) > 0)

\* the loop over the results from the i-th on; it breaks at the first match
RECURSIVE OaLoop(_, _, _, _)
OaLoop(title, results, i, meta) ==
    IF i > Len(results) THEN Returned(meta)
    ELSE LET result == results[i]
             m == title_match(Some(title), get_xml_node_value(result, "title"))
         IN  IF m.kind = "raised" THEN m
             ELSE IF m.val THEN Returned(OaTake(meta, result))
             ELSE OaLoop(title, results, i + 1, meta)

\* the loop without its break: every matching result overwrites the record
RECURSIVE OaLoopNoBreak(_, _, _, _)
OaLoopNoBreak(title, results, i, meta) ==
    IF i > Len(results) THEN Returned(meta)
    ELSE LET result == results[i]
             m == title_match(Some(title), get_xml_node_value(result, "title"))
         IN  IF m.kind = "raised" THEN m
             ELSE IF m.val
                  THEN OaLoopNoBreak(title, results, i + 1, OaTake(meta, result))
             ELSE OaLoopNoBreak(title, results, i + 1, meta)

openaire_title_search_no_break(title, results) ==
    OaLoopNoBreak(title, results, 1, EmptyDict)

openaire_title_search(title, results) == OaLoop(title, results, 1, EmptyDict)

(* -------------------------------- RePEc ------------------------------- *)

REPEC_API_URL(a, b) == <<"https://api.repec.org/call.cgi?code=", a, "&getref=", b>>

repec_get_api_url(handle, token) == REPEC_API_URL(token, handle)

\* the children of the <ol class="list-group"> of a listing page, each with
\* the text of its <i> when it has one
RepecItems == {EmptyDict, [i |-> "RePEc:h1"], [i |-> "RePEc:h2"]}
\* the <ol class="list-group"> that soup.find gives: None when the page has none
RepecListings == {None} \cup {Some(l) : l \in SeqsUpTo(RepecItems, MaxResults)}

repec_get_handle(ol) ==
    IF ol.none THEN Raised("AttributeError")
    ELSE LET results == ol.v
         IN  IF Len(results) > 0
             THEN IF "i" \in DOMAIN results[1]
                  THEN Returned(Some(results[1]["i"]))
                  ELSE Raised("AttributeError")
             ELSE Returned(None)

Tokens == {"token1", "token2"}
Handles == {"RePEc:h1", "RePEc:h2"}
\* what the request to the API meets
RepecResponses == {"json", "not json", "connection error"}

\* the URL repec_get_meta requests
repec_get_meta_url(token, handle) == repec_get_api_url(token, handle)

\* any exception of the request or of json.loads is caught
repec_get_meta(token, handle, response) ==
    IF response = "json"
    THEN Returned(Some(<<"meta of", repec_get_meta_url(token, handle)>>))
    ELSE Returned(None)

(* ------------------------------ Dimensions ---------------------------- *)

KeywordLists == {<<>>, <<"a", "b">>, <<"b", "c">>, <<"a", "a">>}
OptKeywordLists == {None} \cup {Some(l) : l \in KeywordLists}
\* a journal object with its title, one without, or no journal
Journals == {None, Some([title |-> "J", id |-> "jour.1"]), Some([id |-> "jour.1"])}

\* the i-th publication of a Dimensions response
DimPub(i, shape) ==
    [key \in {"id", "title"} \cup shape.present
             \cup (IF shape.terms.none THEN {} ELSE {"terms"})
             \cup (IF shape.concepts.none THEN {} ELSE {"concepts"})
             \cup (IF shape.journal.none THEN {} ELSE {"journal"}) |->
        CASE key = "title" -> shape.title
          [] key = "terms" -> shape.terms.v
          [] key = "concepts" -> shape.concepts.v
          [] key = "journal" -> shape.journal.v
          [] OTHER -> <<key, i>>]

DimShapes ==
    [title : {<<"a">>}, present : SUBSET {"authors", "doi", "linkout"},
     terms : OptKeywordLists, concepts : OptKeywordLists, journal : Journals]

\* the publications of the responses to a title search
DimHitShapes ==
    [title : Titles, present : {{}, {"authors", "doi", "linkout"}},
     terms : {None, Some(<<"a", "b">>)}, concepts : {Some(<<"b", "c">>)},
     journal : {Some([title |-> "J", id |-> "jour.1"])}]

\* whether phrase occurs in title
Contains(title, phrase) ==
    \E k \in 0..(Len(title) - Len(phrase)) :
        SubSeq(title, k + 1, k + Len(phrase)) = phrase

\* what the query of search_title asks for: publications whose title field
\* holds the quoted title
TitleOnlyHits(title, n) ==
    {[i \in 1..n |-> DimPub(i, shapes[i])] :
        shapes \in {sh \in [1..n -> DimHitShapes] :
                        \A i \in 1..n : Contains(sh[i].title, title)}}

\* dimensions_return: with its publications, or without the key
DimResponses(title) ==
    {None} \cup {Some(l) : l \in UNION {TitleOnlyHits(title, n) : n \in 0..MaxResults}}

\* the value of search_title: the publications, or None
search_title(dimensions_return) ==
    IF dimensions_return.none THEN None
    ELSE IF Len(dimensions_return.v) > 0 THEN dimensions_return
    ELSE None

\* list(set(l)): the elements of l once each, in any order
ListOfSet(l) ==
    {f \in [1..Cardinality(Range(l)) -> Range(l)] : Range(f) = Range(l)}

FILT_ALLOWED == {"authors", "doi", "linkout", "concepts", "terms", "journal"}
FINAL_ALLOWED == {"authors", "doi", "linkout", "keywords", "journal_title"}

\* format_dimensions with the final filter left out: the keys of the first
\* filter stay in the output
format_dimensions_unfiltered(dimensions_md) ==
    LET filt_keys == (DOMAIN dimensions_md) \cap FILT_ALLOWED
        pubs_dict == [k \in filt_keys |-> dimensions_md[k]]
        final_keys == filt_keys \cup {"keywords", "journal_title"}
    IN  IF ~({"terms", "concepts", "journal"} \subseteq filt_keys)
        THEN {Raised("KeyError")}
        ELSE IF "title" \notin DOMAIN pubs_dict["journal"] THEN {Raised("KeyError")}
        ELSE {Returned([k \in final_keys |->
                          CASE k = "keywords" -> keywords
                            [] k = "journal_title" -> pubs_dict["journal"]["title"]
                            [] OTHER -> pubs_dict[k]]) :
                 keywords \in ListOfSet(pubs_dict["terms"] \o pubs_dict["concepts"])}

\* the outcomes of format_dimensions, one for each order of the keywords
format_dimensions(dimensions_md) ==
    LET filt_keys == (DOMAIN dimensions_md) \cap FILT_ALLOWED
        pubs_dict == [k \in filt_keys |-> dimensions_md[k]]
        final_keys == (filt_keys \cap FINAL_ALLOWED) \cup {"keywords", "journal_title"}
    IN  IF "terms" \notin filt_keys \/ "concepts" \notin filt_keys
        THEN {Raised("KeyError")}
        ELSE IF "journal" \notin filt_keys THEN {Raised("KeyError")}
        ELSE IF "title" \notin DOMAIN pubs_dict["journal"] THEN {Raised("KeyError")}
        ELSE {Returned([k \in final_keys |->
                          CASE k = "keywords" -> keywords
                            [] k = "journal_title" -> pubs_dict["journal"]["title"]
                            [] OTHER -> pubs_dict[k]]) :
                 keywords \in ListOfSet(pubs_dict["terms"] \o pubs_dict["concepts"])}

\* the outcomes of dimensions_from_title on the response to its query
dimensions_from_title(title, dimensions_return) ==
    LET dimensions_md_all == search_title(dimensions_return)
    IN  IF dimensions_md_all.none THEN {Returned(None)}
        ELSE {IF o.kind = "raised" THEN o
              ELSE Returned(Some(DictSet(o.val, "title", title))) :
                 o \in format_dimensions(dimensions_md_all.v[1])}

(* ------------------------ consolidated functions ---------------------- *)

DIMENSIONS == <<"d", "i", "m", "e", "n", "s", "i", "o", "n", "s">>
SSRN == <<"s", "s", "r", "n">>
EUROPEPMC == <<"e", "u", "r", "o", "p", "e", "p", "m", "c">>
OPENAIRE == <<"o", "p", "e", "n", "a", "i", "r", "e">>

\* the provider names given to the dispatch functions
ApiNames ==
    {DIMENSIONS, SSRN, EUROPEPMC, OPENAIRE,
     <<"D", "i", "m", "e", "n", "s", "i", "o", "n", "s">>,
     <<"S", "S", "R", "N">>,
     <<"E", "u", "r", "o", "p", "e", "P", "M", "C">>,
     <<"O", "p", "e", "n", "A", "I", "R", "E">>,
     <<"r", "e", "p", "e", "c">>,
     <<>>}

\* the functions this module defines, among those title_search calls
Defined == {"get_dimensions_md", "search_ssrn"}

\* the functions whose result title_search assigns for api_name, in the
\* order of its if statements
TitleSearchCalls(api_name) ==
    LET name == Lower(api_name)
    IN  (IF name = DIMENSIONS THEN <<"get_dimensions_md">> ELSE <<>>)
        \o (IF name = SSRN THEN <<"search_ssrn">> ELSE <<>>)
        \o (IF name = EUROPEPMC THEN <<"get_epmc_page">> ELSE <<>>)
        \o (IF name = OPENAIRE THEN <<"oa_lookup_pub_uris">> ELSE <<>>)

get_dimensions_md(title, dimensions_return) ==
    dimensions_from_title(title, dimensions_return)

\* the outcomes of title_search; its call of search_ssrn goes on in the
\* steps of search_ssrn
title_search(title, api_name, dimensions_return) ==
    LET calls == TitleSearchCalls(api_name)
    IN  IF calls = <<>> THEN {Raised("UnboundLocalError")}
        ELSE IF calls[1] \notin Defined THEN {Raised("NameError")}
        ELSE IF calls[1] = "get_dimensions_md"
             THEN get_dimensions_md(title, dimensions_return)
        ELSE {Pending}

\* the responses to the full-text query
FullTextResponses ==
    {EmptyDict, [publications |-> <<>>], [publications |-> <<<<"id", 1>>>>],
     [errors |-> "query"]}

full_text_search(search_term, api_name, stringsearch_result) ==
    IF Lower(api_name) = DIMENSIONS /\ DOMAIN stringsearch_result # {}
    THEN IF "publications" \in DOMAIN stringsearch_result
         THEN Returned(stringsearch_result["publications"])
         ELSE Raised("KeyError")
    ELSE Raised("UnboundLocalError")

(* ------------------------------- state -------------------------------- *)

Init ==
    /\ op = "none"
    /\ args = <<>>
    /\ ret = Pending
    /\ pc = "idle"
    /\ browser = "none"
    /\ request = <<>>

Idle == op = "none" /\ pc = "idle"

CleanTitle ==
    /\ Idle
    /\ \E s \in Strings :
        /\ op' = "clean_title"
        /\ args' = [title |-> s]
        /\ ret' = Returned(clean_title(s))
    /\ UNCHANGED <<pc, browser, request>>

TitleMatch ==
    /\ Idle
    /\ \E t0 \in MatchTitles, t1 \in MatchTitles :
        /\ op' = "title_match"
        /\ args' = [title0 |-> t0, title1 |-> t1]
        /\ ret' = title_match(t0, t1)
    /\ UNCHANGED <<pc, browser, request>>

EuropepmcTitleSearch ==
    /\ Idle
    /\ \E title \in Titles, n \in 0..MaxResults :
        \E shapes \in [1..n -> EpmcShapes] :
            LET result_list == [i \in 1..n |-> EpmcResult(i, shapes[i])]
            IN  /\ op' = "europepmc_title_search"
                /\ args' = [title |-> title, result_list |-> result_list]
                /\ ret' = europepmc_title_search(title, result_list)
    /\ UNCHANGED <<pc, browser, request>>

OpenaireTitleSearch ==
    /\ Idle
    /\ \E title \in Titles, n \in 0..MaxResults :
        \E shapes \in [1..n -> OaShapes] :
            LET results == [i \in 1..n |-> OaResult(i, shapes[i])]
            IN  /\ op' = "openaire_title_search"
                /\ args' = [title |-> title, results |-> results]
                /\ ret' = openaire_title_search(title, results)
    /\ UNCHANGED <<pc, browser, request>>

RepecGetHandle ==
    /\ Idle
    /\ \E title \in Titles, ol \in RepecListings :
        /\ op' = "repec_get_handle"
        /\ args' = [title |-> title, ol |-> ol]
        /\ ret' = repec_get_handle(ol)
    /\ UNCHANGED <<pc, browser, request>>

RepecGetMeta ==
    /\ Idle
    /\ \E token \in Tokens, handle \in Handles, response \in RepecResponses :
        /\ op' = "repec_get_meta"
        /\ args' = [token |-> token, handle |-> handle, response |-> response]
        /\ request' = repec_get_meta_url(token, handle)
        /\ ret' = repec_get_meta(token, handle, response)
    /\ UNCHANGED <<pc, browser>>

FormatDimensions ==
    /\ Idle
    /\ \E shape \in DimShapes :
        LET dimensions_md == DimPub(1, shape)
        IN  /\ op' = "format_dimensions"
            /\ args' = [dimensions_md |-> dimensions_md]
            /\ ret' \in format_dimensions(dimensions_md)
    /\ UNCHANGED <<pc, browser, request>>

DimensionsFromTitle ==
    /\ Idle
    /\ \E title \in Titles :
        \E dimensions_return \in DimResponses(title) :
            /\ op' = "dimensions_from_title"
            /\ args' = [title |-> title, dimensions_return |-> dimensions_return]
            /\ ret' \in dimensions_from_title(title, dimensions_return)
    /\ UNCHANGED <<pc, browser, request>>

\* search_ssrn up to the home page: the browser session is started
SsrnOpen ==
    /\ Idle
    /\ \E title \in Titles :
        /\ op' = "search_ssrn"
        /\ args' = [title |-> title, page |-> "home"]
    /\ ret' = Pending
    /\ browser' = "open"
    /\ pc' = "find_search"
    /\ UNCHANGED request

\* find_element_by_class_name: the search box is found and the search is
\* sent, or NoSuchElementException leaves the call
SsrnFindSearch ==
    /\ pc = "find_search"
    /\ \E found \in BOOLEAN :
        IF found
        THEN /\ pc' = "find_result"
             /\ args' = [args EXCEPT !.page = "search results"]
             /\ UNCHANGED ret
        ELSE /\ pc' = "idle"
             /\ args' = [args EXCEPT !.page = "no search box"]
             /\ ret' = Raised("NoSuchElementException")
    /\ UNCHANGED <<op, browser, request>>

\* the href of a result link: get_attribute gives None when it has none
SsrnLinks == {None, Some("https://ssrn.com/abstract=1")}

\* find_element_by_xpath and get_attribute("href"): the first result's link,
\* or NoSuchElementException leaves the call
SsrnFindResult ==
    /\ pc = "find_result"
    /\ \/ \E ssrn_link \in SsrnLinks :
            /\ pc' = "quit"
            /\ args' = [args EXCEPT !.page = "results"]
            /\ ret' = [Pending EXCEPT !.val = ssrn_link]
       \/ /\ pc' = "idle"
          /\ args' = [args EXCEPT !.page = "no results"]
          /\ ret' = Raised("NoSuchElementException")
    /\ UNCHANGED <<op, browser, request>>

\* browser.quit() and the return of ssrn_link
SsrnQuit ==
    /\ pc = "quit"
    /\ browser' = "quit"
    /\ ret' = Returned(ret.val)
    /\ pc' = "idle"
    /\ UNCHANGED <<op, args, request>>

\* title_search: the whole call, or, for SSRN, up to the home page
TitleSearch ==
    /\ Idle
    /\ \E title \in Titles, api_name \in ApiNames :
        /\ op' = "title_search"
        /\ IF TitleSearchCalls(api_name) = <<"search_ssrn">>
           THEN /\ args' = [title |-> title, api_name |-> api_name, page |-> "home"]
                /\ ret' = Pending
                /\ browser' = "open"
                /\ pc' = "find_search"
           ELSE /\ \E dimensions_return \in DimResponses(title) :
                    /\ args' = [title |-> title, api_name |-> api_name,
                                dimensions_return |-> dimensions_return]
                    /\ ret' \in title_search(title, api_name, dimensions_return)
                /\ UNCHANGED <<pc, browser>>
    /\ UNCHANGED request

FullTextSearch ==
    /\ Idle
    /\ \E search_term \in Titles, api_name \in ApiNames,
          stringsearch_result \in FullTextResponses :
        /\ op' = "full_text_search"
        /\ args' = [search_term |-> search_term, api_name |-> api_name,
                    stringsearch_result |-> stringsearch_result]
        /\ ret' = full_text_search(search_term, api_name, stringsearch_result)
    /\ UNCHANGED <<pc, browser, request>>

\* the call has ended; nothing is kept between calls
Return ==
    /\ op # "none"
    /\ pc = "idle"
    /\ op' = "none"
    /\ args' = <<>>
    /\ ret' = Pending
    /\ browser' = "none"
    /\ request' = <<>>
    /\ UNCHANGED pc

Next ==
    \/ CleanTitle
    \/ TitleMatch
    \/ EuropepmcTitleSearch
    \/ OpenaireTitleSearch
    \/ RepecGetHandle
    \/ RepecGetMeta
    \/ FormatDimensions
    \/ DimensionsFromTitle
    \/ SsrnOpen
    \/ SsrnFindSearch
    \/ SsrnFindResult
    \/ SsrnQuit
    \/ TitleSearch
    \/ FullTextSearch
    \/ Return

Spec == Init /\ [][Next]_vars

(* ------------------------------ claims -------------------------------- *)

Finished == op # "none" /\ pc = "idle"

\* the entries of a result list whose own title matches the queried title
Matching(title, results) ==
    {i \in 1..Len(results) :
        /\ "title" \in DOMAIN results[i]
        /\ clean_title(results[i]["title"]) = clean_title(title)}

Last(S) == CHOOSE i \in S : \A j \in S : j <= i
First(S) == CHOOSE i \in S : \A j \in S : i <= j

\* the record of one EuropePMC entry alone: its doi, pmcid, journal and
\* authors, and its pdf URL only if the entry has a PDF
EpmcRecordOf(result) ==
    [key \in {"doi", "pmcid", "journal", "authors"}
             \cup (IF result["haspdf"] = "Y" THEN {"pdf"} ELSE {}) |->
        CASE key = "doi" -> Some(result["doi"])
          [] key = "pmcid" -> Some(result["pmcid"])
          [] key = "journal" -> Some(result["journaltitle"])
          [] key = "authors" -> Split(result["authorstring"], <<",", " ">>)
          [] OTHER -> EpmcPdfUrl(Some(result["pmcid"]))]

\* C1: when two or more entries of the EuropePMC result list match the
\* queried title, the returned record is the record of the last matching
\* entry alone: no field of an earlier matching entry survives in it
C1_LastMatchWins ==
    (/\ op = "europepmc_title_search"
     /\ ret.kind = "returned"
     /\ Cardinality(Matching(args.title, args.result_list)) >= 2)
    => LET last == args.result_list[Last(Matching(args.title, args.result_list))]
       IN  /\ DOMAIN ret.val = DOMAIN EpmcRecordOf(last)
           /\ \A key \in DOMAIN ret.val : ret.val[key] = EpmcRecordOf(last)[key]

\* C2: the record openaire_title_search returns holds the url, the authors
\* and the open-access flag of the first entry whose title matches the
\* queried title, the flag being true iff that entry has an access-right
\* element classified OPEN; entries after it are never consulted, so the
\* call returns whatever they hold
C2_FirstMatchWins ==
    op = "openaire_title_search" =>
        LET M == Matching(args.title, args.results)
            first == args.results[First(M)]
        IN  /\ (ret.kind = "returned" /\ M = {}) => DOMAIN ret.val = {}
            /\ (ret.kind = "returned" /\ M # {}) =>
                   /\ DOMAIN ret.val = {"url", "authors", "open"}
                   /\ ret.val["url"] = Some(first["url"])
                   /\ ret.val["authors"] = first["creator"]
                   /\ ret.val["open"] =
                          (\E k \in DOMAIN first["bestaccessright"] :
                               first["bestaccessright"][k] = "OPEN")
            /\ (M # {} /\ \A j \in 1..First(M) : "title" \in DOMAIN args.results[j])
                   => ret.kind = "returned"

\* C2's case: two entries match, only the first has an OPEN access right,
\* and the record returned is flagged open
C2_Witness ==
    /\ op = "openaire_title_search"
    /\ ret.kind = "returned"
    /\ Matching(args.title, args.results) = {1, 2}
    /\ args.results[1]["bestaccessright"] = <<"CLOSED", "OPEN">>
    /\ args.results[2]["bestaccessright"] = <<"CLOSED">>
    /\ ret.val["open"]

\* C3: clean_title is idempotent: cleaning a cleaned title changes nothing
C3_Idempotent ==
    op = "clean_title" => clean_title(ret.val) = ret.val

\* C4: title_match returns false, and does not raise, when either of its
\* arguments is None
C4_NoneIsNoMatch ==
    (op = "title_match" /\ (args.title0.none \/ args.title1.none))
    => ret = Returned(FALSE)

\* the provider names each dispatch function recognizes
Recognized(f) ==
    IF f = "title_search" THEN {DIMENSIONS, SSRN, EUROPEPMC, OPENAIRE}
    ELSE {DIMENSIONS}

\* C5: a dispatch with a provider name that is not recognized fails with
\* the UnknownProvider error, and a recognized name, whatever its case,
\* selects exactly one adapter, which the module defines
C5_UnknownProvider ==
    /\ (/\ op \in {"title_search", "full_text_search"}
        /\ Finished
        /\ Lower(args.api_name) \notin Recognized(op))
       => (ret.kind = "raised" /\ ret.err = "UnknownProvider")
    /\ (op = "title_search" /\ Lower(args.api_name) \in Recognized(op))
       => /\ Len(TitleSearchCalls(args.api_name)) = 1
          /\ TitleSearchCalls(args.api_name)[1] \in Defined

\* C6: the output of format_dimensions has only keys among authors, doi,
\* linkout, keywords and journal_title; keywords holds each of the input's
\* terms and concepts once; journal_title is the title of the input's
\* journal; authors, doi and linkout are there, with the input's value,
\* exactly when the input has them
C6_FormatDimensions ==
    (op = "format_dimensions" /\ ret.kind = "returned") =>
        LET md == args.dimensions_md
            out == ret.val
        IN  /\ DOMAIN out \subseteq FINAL_ALLOWED
            /\ {"keywords", "journal_title"} \subseteq DOMAIN out
            /\ Range(out["keywords"]) = Range(md["terms"]) \cup Range(md["concepts"])
            /\ Len(out["keywords"]) = Cardinality(Range(out["keywords"]))
            /\ out["journal_title"] = md["journal"]["title"]
            /\ \A k \in {"authors", "doi", "linkout"} :
                   /\ k \in DOMAIN out <=> k \in DOMAIN md
                   /\ k \in DOMAIN out => out[k] = md[k]

\* C6's case: terms and concepts share a keyword, and the input has a doi
\* but no authors
C6_Witness ==
    /\ op = "format_dimensions"
    /\ ret.kind = "returned"
    /\ args.dimensions_md["terms"] = <<"a", "b">>
    /\ args.dimensions_md["concepts"] = <<"b", "c">>
    /\ "doi" \in DOMAIN args.dimensions_md
    /\ "authors" \notin DOMAIN args.dimensions_md
    /\ Len(ret.val["keywords"]) = 3

\* whether the response of the provider holds no result for the queried title
NoResult ==
    CASE op = "europepmc_title_search" -> Matching(args.title, args.result_list) = {}
      [] op = "openaire_title_search" -> Matching(args.title, args.results) = {}
      [] op = "repec_get_handle" -> args.ol.none \/ Len(args.ol.v) = 0
      [] op = "dimensions_from_title" ->
             args.dimensions_return.none \/ Len(args.dimensions_return.v) = 0
      [] op = "search_ssrn" -> args.page = "no results"
      [] OTHER -> FALSE

\* whether the call returned no result: None or an empty record
ReturnedNothing ==
    /\ ret.kind = "returned"
    /\ IF op \in {"europepmc_title_search", "openaire_title_search"}
       THEN DOMAIN ret.val = {}
       ELSE ret.val = None

\* C7: a query whose title has no result in the provider's response yields
\* no result, for every provider, and does not raise
C7_NoResultNoRaise ==
    (Finished /\ NoResult) => ReturnedNothing

\* C8: a record returned by a title-based lookup comes from a candidate
\* whose own title matches the queried title
C8_TitleGate ==
    /\ (op = "europepmc_title_search" /\ ret.kind = "returned" /\ DOMAIN ret.val # {})
       => \E i \in Matching(args.title, args.result_list) :
              ret.val["doi"] = Some(args.result_list[i]["doi"])
    /\ (op = "openaire_title_search" /\ ret.kind = "returned" /\ DOMAIN ret.val # {})
       => \E i \in Matching(args.title, args.results) :
              ret.val["url"] = Some(args.results[i]["url"])
    /\ (op = "dimensions_from_title" /\ ret.kind = "returned" /\ ~ret.val.none)
       => 1 \in Matching(args.title, args.dimensions_return.v)

\* C9: no call of search_ssrn ends with the browser session it started
\* still open
C9_BrowserQuit ==
    (Finished /\ browser # "none") => browser = "quit"

\* C10: repec_get_meta(token, handle) requests the URL with the token in
\* the code parameter and the handle in the getref parameter
C10_ApiUrl ==
    op = "repec_get_meta" =>
        request = <<"https://api.repec.org/call.cgi?code=", args.token,
                    "&getref=", args.handle>>

====
